---- MODULE Spec2Model ----
(***************************************************************************)
(* A model of nubis-prometheus-exposition (src/main.go): the label-name    *)
(* sanitizer, the per-kind tag pipelines that fill the Prometheus          *)
(* registry, and the publication of the rendered registry by write_file.   *)
(*                                                                         *)
(* Go strings that the program inspects character by character (tag keys,  *)
(* label names) are sequences of one-character strings, <<"a", ":", "b">>  *)
(* for "a:b"; strings that are only copied (ids, tag values) are plain     *)
(* strings.                                                                *)
(***************************************************************************)
EXTENDS Integers, Sequences, FiniteSets, TLC

VARIABLES
    tag,        \* sanatize_tag: the argument of the call
    sanPc,      \* sanatize_tag: "call" before the call, "returned" after
    sanitized,  \* sanatize_tag: what the call produced
    kind,       \* one pipeline alone: the kind whose function is run
    input,      \* one pipeline alone: what the AWS API holds for that kind
    runs,       \* one pipeline alone: the outcome of each run so far
    aws,        \* main: what the AWS API answers for each kind in this run
    pc,         \* main: the statement each process is at
    registry,   \* main: the process's prometheus registry
    metricsString, \* main: the text prometheus_gather returned
    exitCode,   \* main: the process's exit status, -1 while it runs
    dir,        \* the output directory: path -> inode, 0 when absent
    data,       \* inode -> the bytes it holds
    tmpName,    \* write_file: the temporary path the process drew
    tmpFile,    \* write_file: the inode the process's descriptor is open on
    created     \* write_file: the inode the process's O_EXCL create made

vars == <<tag, sanPc, sanitized, kind, input, runs, aws, pc, registry,
          metricsString, exitCode, dir, data, tmpName, tmpFile, created>>

sanVars == <<tag, sanPc, sanitized>>
kindVars == <<kind, input, runs>>
mainVars == <<aws, pc, registry, metricsString, exitCode, dir, data,
              tmpName, tmpFile, created>>

(***************************************************************************)
(* Characters and byte order                                               *)
(***************************************************************************)

\* The characters of the model in ascending byte order (sort.Strings and
\* Go's < on strings compare bytes).
ASCII ==
    <<"-", "0", "1", "2", "3", "4", "5", "6", "7", "8", "9", ":",
      "A", "B", "C", "D", "E", "F", "G", "H", "I", "J", "K", "L", "M",
      "N", "O", "P", "Q", "R", "S", "T", "U", "V", "W", "X", "Y", "Z",
      "_",
      "a", "b", "c", "d", "e", "f", "g", "h", "i", "j", "k", "l", "m",
      "n", "o", "p", "q", "r", "s", "t", "u", "v", "w", "x", "y", "z">>

Chars == {ASCII[i] : i \in 1..Len(ASCII)}

Ord == [c \in Chars |-> CHOOSE i \in 1..Len(ASCII) : ASCII[i] = c]

Digits == {c \in Chars : Ord[c] >= Ord["0"] /\ Ord[c] <= Ord["9"]}

Letters == {c \in Chars : \/ Ord[c] >= Ord["A"] /\ Ord[c] <= Ord["Z"]
                          \/ Ord[c] >= Ord["a"] /\ Ord[c] <= Ord["z"]}

\* The character class [a-zA-Z0-9_].
WordChars == Letters \cup Digits \cup {"_"}

(***************************************************************************)
(* sanatize_tag                                                            *)
(***************************************************************************)

\* "^[a-zA-Z_][a-zA-Z0-9_]*$" matches the whole of s.
regex_full(s) ==
    /\ Len(s) > 0
    /\ s[1] \in Letters \cup {"_"}
    /\ \A i \in 2..Len(s) : s[i] \in WordChars

\* "^[0-9_]*" matches a prefix of s: some n characters of [0-9_] at the
\* start, n = 0 included.
regex_first_number(s) ==
    \E n \in 0..Len(s) : \A i \in 1..n : s[i] \in Digits \cup {"_"}

\* The end of the leftmost-longest match of "[a-zA-Z0-9_]*" that starts at
\* byte offset pos of s (offsets from 0, as in Go).
RECURSIVE matchEnd(_, _)
matchEnd(s, pos) ==
    IF pos < Len(s) /\ s[pos + 1] \in WordChars
    THEN matchEnd(s, pos + 1)
    ELSE pos

\* regexp.allMatches for "[a-zA-Z0-9_]*": successive matches from pos; an
\* empty match that abuts the preceding match is skipped, and after an empty
\* match the scan moves on by one character (past the end after the last).
RECURSIVE allMatches(_, _, _, _)
allMatches(s, pos, prevMatchEnd, acc) ==
    IF pos > Len(s)
    THEN acc
    ELSE LET e == matchEnd(s, pos) IN
         IF e = pos
         THEN allMatches(s,
                         IF pos < Len(s) THEN pos + 1 ELSE Len(s) + 1,
                         e,
                         IF pos = prevMatchEnd THEN acc ELSE Append(acc, <<>>))
         ELSE allMatches(s, e, e, Append(acc, SubSeq(s, pos + 1, e)))

\* regex_valid_segment.FindAllStringSubmatch(tag, -1), each submatch slice
\* already joined (the expression has no group: one string per match).
FindAllStringSubmatch(s) == allMatches(s, 0, -1, <<>>)

\* strings.Join(parts, ""): the concatenation of the parts.
RECURSIVE Join(_)
Join(parts) ==
    IF parts = <<>> THEN <<>> ELSE Head(parts) \o Join(Tail(parts))

\* The restitch loop: every match, and "_" after each but the last.
RECURSIVE restitchFrom(_, _)
restitchFrom(valid_slice, i) ==
    IF i > Len(valid_slice)
    THEN <<>>
    ELSE <<valid_slice[i]>>
         \o (IF i < Len(valid_slice) THEN << <<"_">> >> ELSE <<>>)
         \o restitchFrom(valid_slice, i + 1)

restitch(valid_slice) == restitchFrom(valid_slice, 1)

\* The string sanatize_tag builds in its second step.
valid_string(s) == Join(restitch(FindAllStringSubmatch(s)))


\* pad_string without the pad: the third step returns valid_string as it is.
pad_string_NoPad(vs) == vs

\* The string of the third step: "_" and valid_string when regex_first_number
\* matches, the empty join otherwise.
pad_string(vs) ==
    Join(IF regex_first_number(vs) THEN << <<"_">>, vs >> ELSE <<>>)

Returned(s) == [panic |-> FALSE, val |-> s]

Panicked == [panic |-> TRUE, val |-> <<>>]

\* The value of sanitized while no call has returned.
NotCalled == [panic |-> FALSE, val |-> <<>>]


\* sanatize_tag without its two early returns: every tag is restitched and
\* padded.
sanatize_tag_AlwaysPad(s) ==
    IF regex_full(pad_string(valid_string(s)))
    THEN Returned(pad_string(valid_string(s)))
    ELSE Panicked

\* sanatize_tag(tag): the label name returned, or the panic.
sanatize_tag(s) ==
    IF regex_full(s) THEN Returned(s)
    ELSE IF regex_full(valid_string(s)) THEN Returned(valid_string(s))
    ELSE IF regex_full(pad_string(valid_string(s)))
         THEN Returned(pad_string(valid_string(s)))
         ELSE Panicked

(***************************************************************************)
(* Go strings, maps and sort.Strings                                       *)
(***************************************************************************)

\* a < b for Go strings: byte-wise lexicographic order.
RECURSIVE StrLess(_, _)
StrLess(a, b) ==
    IF b = <<>> THEN FALSE
    ELSE IF a = <<>> THEN TRUE
    ELSE IF Ord[Head(a)] # Ord[Head(b)] THEN Ord[Head(a)] < Ord[Head(b)]
    ELSE StrLess(Tail(a), Tail(b))

\* The sequence without its element at position i.
RemoveAt(seq, i) == SubSeq(seq, 1, i - 1) \o SubSeq(seq, i + 1, Len(seq))

\* The position of a least string of a non-empty sequence.
MinIndex(seq) ==
    CHOOSE i \in 1..Len(seq) : \A j \in 1..Len(seq) : ~StrLess(seq[j], seq[i])


\* sort.Strings left out: keys stay in the order range yielded them.
SortStrings_Unsorted(keys) == keys

\* sort.Strings(keys): keys in ascending byte-wise order, each as often as
\* before.
RECURSIVE SortStrings(_)
SortStrings(keys) ==
    IF keys = <<>> THEN <<>>
    ELSE <<keys[MinIndex(keys)]>> \o SortStrings(RemoveAt(keys, MinIndex(keys)))

\* m[k] = v on a Go map.
MapSet(m, k, v) ==
    [x \in DOMAIN m \cup {k} |-> IF x = k THEN v ELSE m[x]]

\* m[k] read from a map[string]string: the empty string for a missing key.
MapGet(m, k) == IF k \in DOMAIN m THEN m[k] ELSE ""

EmptyMap == [x \in {} |-> ""]

(***************************************************************************)
(* The prometheus registry, as far as main.go uses it                      *)
(***************************************************************************)

\* prometheus's check of a label name at NewDesc: a legal identifier that
\* does not start with the reserved "__".
checkLabelName(l) ==
    /\ regex_full(l)
    /\ ~(Len(l) >= 2 /\ l[1] = "_" /\ l[2] = "_")


\* A descriptor check that misses equal label names.
descErr_NoDuplicateCheck(labels) ==
    \E i \in 1..Len(labels) : ~checkLabelName(labels[i])

\* The descriptor NewGaugeVec builds is in error when a label name is
\* illegal or two label names are equal.
descErr(labels) ==
    \/ \E i \in 1..Len(labels) : ~checkLabelName(labels[i])
    \/ \E i, j \in 1..Len(labels) : i # j /\ labels[i] = labels[j]

\* registry.MustRegister(NewGaugeVec(name, labels)): panics on a descriptor
\* in error and on a name already registered; otherwise the registry holds
\* the new family, with no series yet.
MustRegister(reg, name, labels) ==
    IF descErr(labels) \/ name \in DOMAIN reg
    THEN [panic |-> TRUE, registry |-> reg]
    ELSE [panic |-> FALSE,
          registry |-> [n \in DOMAIN reg \cup {name} |->
                           IF n = name
                           THEN [labels |-> labels, series |-> {}]
                           ELSE reg[n]]]

\* vec.WithLabelValues(lvs...).Set(1) for each lvs of a sequence, in turn:
\* panics when the number of values is not the number of labels; a series is
\* keyed by its label values, so the same values twice are one series.
RECURSIVE WithLabelValues(_, _, _)
WithLabelValues(reg, name, lvss) ==
    IF lvss = <<>> THEN [panic |-> FALSE, registry |-> reg]
    ELSE IF Len(Head(lvss)) # Len(reg[name].labels)
    THEN [panic |-> TRUE, registry |-> reg]
    ELSE WithLabelValues(
             [reg EXCEPT ![name].series = @ \cup {Head(lvss)}],
             name, Tail(lvss))

(***************************************************************************)
(* The tagged kinds: EC2, EFS, Lambda, RDS                                 *)
(***************************************************************************)

colInstanceId == <<"I", "n", "s", "t", "a", "n", "c", "e", "I", "d">>

colFileSystemId == <<"F", "i", "l", "e", "S", "y", "s", "t", "e", "m", "I", "d">>

colFunctionArn == <<"F", "u", "n", "c", "t", "i", "o", "n", "A", "r", "n">>

colFunctionName == <<"F", "u", "n", "c", "t", "i", "o", "n", "N", "a", "m", "e">>

colDescription == <<"D", "e", "s", "c", "r", "i", "p", "t", "i", "o", "n">>

colDBInstanceArn == <<"D", "B", "I", "n", "s", "t", "a", "n", "c", "e", "A", "r", "n">>

colDBName == <<"D", "B", "N", "a", "m", "e">>

colDBInstanceIdentifier == <<"D", "B", "I", "n", "s", "t", "a", "n", "c", "e", "I", "d", "e", "n", "t", "i", "f", "i", "e", "r">>

TaggedKinds == {"ec2", "efs", "lambda", "rds"}

MetricName(k) ==
    CASE k = "asg" -> "aws_asg_instances"
      [] k = "ec2" -> "aws_ec2_tags"
      [] k = "efs" -> "aws_efs_tags"
      [] k = "elb" -> "aws_elb_instances"
      [] k = "lambda" -> "aws_lambda_tags"
      [] k = "rds" -> "aws_rds_tags"

\* The key under which the resource's id is reported.
IdentityKey(k) ==
    CASE k = "ec2" -> colInstanceId
      [] k = "efs" -> colFileSystemId
      [] k = "lambda" -> colFunctionArn
      [] k = "rds" -> colDBInstanceArn

\* The metadata fields stored in the resource's map beside its tags.
MetadataKeys(k) ==
    CASE k = "ec2" -> <<>>
      [] k = "efs" -> <<>>
      [] k = "lambda" -> <<colFunctionName, colDescription>>
      [] k = "rds" -> <<colDBName, colDBInstanceIdentifier>>

\* The keys appended to keys before the tag keys, in the order of the code.
FixedKeys(k) == <<IdentityKey(k)>> \o MetadataKeys(k)

\* Whether the kind's tags come from one more API call per resource.
FetchesTags(k) == k \in {"efs", "lambda", "rds"}

Range(seq) == {seq[i] : i \in 1..Len(seq)}

\* The first loop: the tags map holds every tag key of every resource.
tagsMap(resources) ==
    UNION {{resources[i].Tags[j].Key : j \in 1..Len(resources[i].Tags)} :
              i \in 1..Len(resources)}


\* The resource's own tag values never stored: every tag stays "".
putTags_Dropped(m, tagList) == m

\* The map of one resource: every key of tags with "", then the metadata
\* fields, then the resource's own tags in the order they were returned.
RECURSIVE putTags(_, _)
putTags(m, tagList) ==
    IF tagList = <<>> THEN m
    ELSE putTags(MapSet(m, Head(tagList).Key, Head(tagList).Value),
                 Tail(tagList))

RECURSIVE putMetadata(_, _, _)
putMetadata(m, mkeys, r) ==
    IF mkeys = <<>> THEN m
    ELSE putMetadata(MapSet(m, Head(mkeys), MapGet(r.meta, Head(mkeys))),
                     Tail(mkeys), r)

resourceMap(k, tags, r) ==
    putTags(putMetadata([key \in tags |-> ""], MetadataKeys(k), r), r.Tags)

\* The second loop: instances[id] is (re)made for each resource in turn.
RECURSIVE instancesMap(_, _, _, _)
instancesMap(k, tags, resources, acc) ==
    IF resources = <<>> THEN acc
    ELSE instancesMap(k, tags, Tail(resources),
                      MapSet(acc, Head(resources).id,
                             resourceMap(k, tags, Head(resources))))


\* Only the tag keys sorted, after the fixed keys in their declared order.
sortedKeys_FixedFirst(k, tagOrder) == FixedKeys(k) \o SortStrings(tagOrder)

\* keys: the fixed keys, then the keys of tags as range yields them
\* (tagOrder), all of it sorted by sort.Strings.
sortedKeys(k, tagOrder) == SortStrings(FixedKeys(k) \o tagOrder)

\* sanitizedKeys: sanatize_tag of each key, in order.
sanitizedKeys(keys) == [i \in 1..Len(keys) |-> sanatize_tag(keys[i])]

\* The label values of one resource: its id under the identity key, its
\* map's value under every other key.
instanceString(k, keys, id, value) ==
    [i \in 1..Len(keys) |->
        IF keys[i] = IdentityKey(k) THEN id ELSE MapGet(value, keys[i])]

\* The ids of a map in some order (range over the instances map).
RECURSIVE SetToSeq(_)
SetToSeq(S) ==
    IF S = {} THEN <<>>
    ELSE LET x == CHOOSE y \in S : TRUE IN <<x>> \o SetToSeq(S \ {x})


\* A failed API call that ends the process instead of the function.
fetchFailed_Fatal(reg) == [panic |-> TRUE, registry |-> reg]

\* "fmt.Println(err.Error()); return" after a failed API call: the function
\* ends, the process goes on, the registry is as it was.
fetchFailed(reg) == [panic |-> FALSE, registry |-> reg]

\* One tagged kind's function on registry reg.  result is the API's answer:
\* err for a failed listing, resources in the order returned, failAt the
\* number of the tag call that fails (0: none).  tagOrder is the order in
\* which range yields the keys of tags.
tag_pipeline(k, reg, result, tagOrder) ==
    LET resources == result.resources
        tags == tagsMap(resources)
        instances == instancesMap(k, tags, resources, EmptyMap)
        keys == sortedKeys(k, tagOrder)
        skeys == sanitizedKeys(keys)
        labels == [i \in 1..Len(keys) |-> skeys[i].val]
        registered == MustRegister(reg, MetricName(k), labels)
        ids == SetToSeq(DOMAIN instances)
        lvss == [n \in 1..Len(ids) |->
                    instanceString(k, keys, ids[n], instances[ids[n]])]
    IN  IF result.err THEN fetchFailed(reg)
        ELSE IF FetchesTags(k) /\ result.failAt \in 1..(2 * Len(resources))
        THEN fetchFailed(reg)
        ELSE IF \E i \in 1..Len(keys) : skeys[i].panic
        THEN [panic |-> TRUE, registry |-> reg]
        ELSE IF registered.panic THEN registered
        ELSE WithLabelValues(registered.registry, MetricName(k), lvss)

get_ec2_instance_tags(reg, result, tagOrder) ==
    tag_pipeline("ec2", reg, result, tagOrder)

get_efs_tags(reg, result, tagOrder) ==
    tag_pipeline("efs", reg, result, tagOrder)

get_lambda_tags(reg, result, tagOrder) ==
    tag_pipeline("lambda", reg, result, tagOrder)

get_rds_tags(reg, result, tagOrder) ==
    tag_pipeline("rds", reg, result, tagOrder)

(***************************************************************************)
(* The membership kinds: ASG, ELB                                          *)
(***************************************************************************)

\* The label values of every instance of every group, in the order of the
\* two nested loops.
RECURSIVE memberValues(_)
memberValues(groups) ==
    IF groups = <<>> THEN <<>>
    ELSE [n \in 1..Len(Head(groups).Instances) |->
             <<Head(groups).name, Head(groups).ref,
               Head(groups).Instances[n]>>]
         \o memberValues(Tail(groups))

membership(k, labels, reg, result) ==
    LET registered == MustRegister(reg, MetricName(k), labels)
    IN  IF result.err THEN fetchFailed(reg)
        ELSE IF registered.panic THEN registered
        ELSE WithLabelValues(registered.registry, MetricName(k),
                             memberValues(result.groups))

asgLabels ==
    << <<"A","u","t","o","S","c","a","l","i","n","g","G","r","o","u","p","N","a","m","e">>,
       <<"A","u","t","o","S","c","a","l","i","n","g","G","r","o","u","p","A","R","N">>,
       colInstanceId >>

elbLabels ==
    << <<"L","o","a","d","B","a","l","a","n","c","e","r","N","a","m","e">>,
       <<"D","N","S","N","a","m","e">>,
       colInstanceId >>

get_asg_membership(reg, result) == membership("asg", asgLabels, reg, result)

get_elb_membership(reg, result) == membership("elb", elbLabels, reg, result)

(***************************************************************************)
(* Inputs: what the AWS API holds, and the orders it may be returned in    *)
(***************************************************************************)

\* At most MaxRes resources (or memberships) in one listing.
MaxRes == 2

\* At most MaxKeys distinct tag keys over the resources of one listing.
MaxKeys == 2

\* Tag strings of at most MaxLen characters are given to sanatize_tag alone.
MaxLen == 4

Kinds == {"asg", "ec2", "efs", "elb", "lambda", "rds"}

Ids == {"i-1", "i-2"}

Groups == {"g1", "g2"}

keyName == <<"N", "a", "m", "e">>

keyColon == <<"a", ":", "b">>

keyUnderscore == <<"a", "_", "b">>

keyDigit == <<"1", "a">>

\* The tag keys a resource of the kind may carry: a legal name, two keys
\* that differ only in a separator, a key with a leading digit, and a key
\* spelled like one of the kind's fixed keys.
TagKeyPool(k) ==
    <<keyName, keyColon, keyUnderscore, keyDigit,
      CASE k = "ec2" -> colInstanceId
        [] k = "efs" -> colFileSystemId
        [] k = "lambda" -> colDescription
        [] k = "rds" -> colDBName>>

IndexOf(seq, x) == CHOOSE i \in 1..Len(seq) : seq[i] = x

\* The value of the resource's tag: one string per resource and key.
TagValue(k, id, key) ==
    (IF id = "i-1" THEN <<"a1", "a2", "a3", "a4", "a5">>
                   ELSE <<"b1", "b2", "b3", "b4", "b5">>)[IndexOf(TagKeyPool(k), key)]

\* The value of the resource's metadata field (a description may be empty).
MetaValue(k, id, key) ==
    (IF id = "i-1" THEN <<"n1", "">> ELSE <<"n2", "d2">>)[IndexOf(MetadataKeys(k), key)]

\* The ARN of an auto scaling group, the DNS name of a load balancer.
GroupRef(g) == IF g = "g1" THEN "ref-g1" ELSE "ref-g2"

RECURSIVE Sum(_, _)
Sum(f, S) ==
    IF S = {} THEN 0
    ELSE LET x == CHOOSE y \in S : TRUE IN f[x] + Sum(f, S \ {x})

\* What the API holds for a tagged kind: how often each resource is listed
\* (a resource listed twice is the same resource twice) and its tag keys.
TaggedInputs(k) ==
    {[occ |-> oc, tagsOf |-> t] :
        oc \in {o \in [Ids -> 0..MaxRes] : Sum(o, Ids) <= MaxRes},
        t \in {u \in [Ids -> SUBSET Range(TagKeyPool(k))] :
                 Cardinality(UNION {u[i] : i \in Ids}) <= MaxKeys}}

\* What the API holds for a membership kind: how often each instance is
\* listed in each group.
MemberInputs ==
    {[occ |-> oc] :
        oc \in {o \in [Groups \X Ids -> 0..MaxRes] :
                  Sum(o, Groups \X Ids) <= MaxRes}}

Inputs(k) ==
    IF k \in TaggedKinds
    THEN {inp \in TaggedInputs(k) : \A i \in Ids : inp.occ[i] = 0 => inp.tagsOf[i] = {}}
    ELSE MemberInputs

\* The tag keys of a tagged input.
Universe(inp) == UNION {inp.tagsOf[i] : i \in Ids}

\* The orders of S: the sequences that hold each element of S once.
Perms(S) ==
    {p \in [1..Cardinality(S) -> S] : \A i, j \in 1..Cardinality(S) : p[i] = p[j] => i = j}

\* The listings of a multiset: the sequences that hold x occ[x] times.
Listings(occ, S) ==
    {p \in [1..Sum(occ, S) -> S] :
        \A x \in S : Cardinality({n \in 1..Sum(occ, S) : p[n] = x}) = occ[x]}

\* The orders in which one run may meet its input: the listing of the
\* resources, and the order of the tag keys (of each resource's tag list and
\* of range over the tags map).
Orders(k, inp) ==
    IF k \in TaggedKinds
    THEN {[res |-> r, keys |-> q] : r \in Listings(inp.occ, Ids), q \in Perms(Universe(inp))}
    ELSE {[res |-> r, keys |-> q] : r \in Listings(inp.occ, Groups \X Ids), q \in Perms(Groups)}

\* The order of a first run.
Canonical(k, inp) == CHOOSE o \in Orders(k, inp) : TRUE

\* The tag list of a resource: its keys in the order o, with their values.
TagList(k, id, mine, keyOrder) ==
    LET Mine(key) == key \in mine
        ks == SelectSeq(keyOrder, Mine)
    IN  [n \in 1..Len(ks) |-> [Key |-> ks[n], Value |-> TagValue(k, id, ks[n])]]

\* The answer of the API to a tagged kind's listing, in the order o.
TaggedResult(k, inp, o, err, failAt) ==
    [err |-> err,
     failAt |-> failAt,
     resources |->
        [n \in 1..Len(o.res) |->
            [id |-> o.res[n],
             meta |-> [mk \in Range(MetadataKeys(k)) |-> MetaValue(k, o.res[n], mk)],
             Tags |-> TagList(k, o.res[n], inp.tagsOf[o.res[n]], o.keys)]]]

\* The answer of the API to a membership kind's listing, in the order o:
\* every group, each with its instances as listed.
MemberResult(inp, o, err) ==
    [err |-> err,
     groups |->
        [n \in 1..Len(o.keys) |->
            LET OfGroup(m) == m[1] = o.keys[n]
                ms == SelectSeq(o.res, OfGroup)
            IN  [name |-> o.keys[n],
                 ref |-> GroupRef(o.keys[n]),
                 Instances |-> [j \in 1..Len(ms) |-> ms[j][2]]]]]

(***************************************************************************)
(* sanatize_tag alone                                                      *)
(***************************************************************************)

SanAlphabet == {"a", "1", "_", ":"}

TagStrings == UNION {[1..n -> SanAlphabet] : n \in 0..MaxLen}

\* The program is not run.
Idle ==
    /\ aws = <<>> /\ pc = <<>> /\ registry = <<>> /\ metricsString = <<>>
    /\ exitCode = <<>> /\ dir = <<>> /\ data = <<>>
    /\ tmpName = <<>> /\ tmpFile = <<>> /\ created = <<>>

SanInit ==
    /\ tag \in TagStrings
    /\ sanPc = "call"
    /\ sanitized = NotCalled
    /\ kind = "" /\ input = <<>> /\ runs = <<>>
    /\ Idle

SanitizeCall ==
    /\ sanPc = "call"
    /\ sanitized' = sanatize_tag(tag)
    /\ sanPc' = "returned"
    /\ UNCHANGED <<tag, kindVars, mainVars>>

SpecSanitize == SanInit /\ [][SanitizeCall]_vars

(***************************************************************************)
(* One kind's function alone, run twice over the same input                *)
(***************************************************************************)

KindInit ==
    /\ kind \in Kinds
    /\ input \in Inputs(kind)
    /\ runs = <<>>
    /\ tag = <<>> /\ sanPc = "idle" /\ sanitized = NotCalled
    /\ Idle

\* The function of kind k on an empty registry, its input met in order o.
RunKind(k, inp, o) ==
    CASE k = "asg" -> get_asg_membership(EmptyMap, MemberResult(inp, o, FALSE))
      [] k = "elb" -> get_elb_membership(EmptyMap, MemberResult(inp, o, FALSE))
      [] k = "ec2" -> get_ec2_instance_tags(EmptyMap, TaggedResult(k, inp, o, FALSE, 0), o.keys)
      [] k = "efs" -> get_efs_tags(EmptyMap, TaggedResult(k, inp, o, FALSE, 0), o.keys)
      [] k = "lambda" -> get_lambda_tags(EmptyMap, TaggedResult(k, inp, o, FALSE, 0), o.keys)
      [] k = "rds" -> get_rds_tags(EmptyMap, TaggedResult(k, inp, o, FALSE, 0), o.keys)

\* A first run meets the input in its canonical order, a second run in any.
FirstRun ==
    /\ runs = <<>>
    /\ runs' = <<[order |-> Canonical(kind, input),
                  out |-> RunKind(kind, input, Canonical(kind, input))]>>
    /\ UNCHANGED <<kind, input, sanVars, mainVars>>

SecondRun ==
    /\ Len(runs) = 1
    /\ \E o \in Orders(kind, input) :
          runs' = Append(runs, [order |-> o, out |-> RunKind(kind, input, o)])
    /\ UNCHANGED <<kind, input, sanVars, mainVars>>

SpecKind == KindInit /\ [][FirstRun \/ SecondRun]_vars

(***************************************************************************)
(* The program: gather_data, prometheus_gather, write_file                 *)
(***************************************************************************)

\* The invocations of the program that share the output directory.  Under
\* Spec only invocation 1 is started.
Procs == {1, 2}

\* Temporary names end in one of NumSuffix numbers (the program draws from
\* 10000).
NumSuffix == 2

\* A document reaches its file in DocChunks pieces.
DocChunks == 2

OutFile == "out.prom"

TmpNames == <<"out.prom.tmp0", "out.prom.tmp1", "out.prom.tmp2", "out.prom.tmp3">>


\* The temporary path without its suffix: the output path itself.
TmpPath_NoSuffix(n) == OutFile

\* filepath.Join(dir, fmt.Sprintf("%s.tmp%d", file, n)).
TmpPath(n) == TmpNames[n + 1]

Paths == {OutFile} \cup {TmpPath(n) : n \in 0..(NumSuffix - 1)}

\* The complete document a previous run published.
OldDoc ==
    [text |-> <<[name |-> "previous", labels |-> <<>>, series |-> {}]>>,
     len |-> DocChunks]

\* The calls of gather_data, in order, and what follows them in main.
CallOrder == <<"asg", "ec2", "efs", "elb", "lambda", "rds">>

NextPc(k) ==
    IF IndexOf(CallOrder, k) < Len(CallOrder)
    THEN CallOrder[IndexOf(CallOrder, k) + 1]
    ELSE "prometheus_gather"

\* One resource, i-1, with the given tag keys.
OneResource(keys) ==
    [occ |-> [i \in Ids |-> IF i = "i-1" THEN 1 ELSE 0],
     tagsOf |-> [i \in Ids |-> IF i = "i-1" THEN keys ELSE {}]]

\* One instance, i-1, in group g1.
OneMember ==
    [occ |-> [m \in Groups \X Ids |-> IF m = <<"g1", "i-1">> THEN 1 ELSE 0]]

Answer(held, err, failAt) == [held |-> held, err |-> err, failAt |-> failAt]

\* What the API may answer for each kind during a whole run of the program:
\* a listing, a failed listing, a failed tag call of the first or second
\* loop.
MainAnswers(k) ==
    CASE k = "asg" -> {Answer(OneMember, e, 0) : e \in BOOLEAN}
      [] k = "elb" -> {Answer(OneMember, e, 0) : e \in BOOLEAN}
      [] k = "ec2" -> {Answer(OneResource({keyName}), FALSE, 0),
                       Answer(OneResource({keyColon, keyUnderscore}), FALSE, 0),
                       Answer(OneResource({keyName}), TRUE, 0)}
      [] k = "efs" -> {Answer(OneResource({keyName}), FALSE, 0),
                       Answer(OneResource({keyName}), TRUE, 0),
                       Answer(OneResource({keyName}), FALSE, 1),
                       Answer(OneResource({keyName}), FALSE, 2)}
      [] k = "lambda" -> {Answer(OneResource({keyColon}), FALSE, 0),
                          Answer(OneResource({colDescription}), FALSE, 0),
                          Answer(OneResource({keyColon}), TRUE, 0),
                          Answer(OneResource({keyColon}), FALSE, 1)}
      [] k = "rds" -> {Answer(OneResource({keyDigit}), FALSE, 0),
                       Answer(OneResource({keyDigit}), TRUE, 0),
                       Answer(OneResource({keyDigit}), FALSE, 2)}

Init ==
    /\ \E a \in MainAnswers("asg") \X MainAnswers("ec2") \X MainAnswers("efs")
                \X MainAnswers("elb") \X MainAnswers("lambda") \X MainAnswers("rds") :
          aws = [k \in Kinds |-> a[IndexOf(CallOrder, k)]]
    /\ pc = [p \in Procs |-> IF p = 1 THEN "asg" ELSE "off"]
    /\ registry = [p \in Procs |-> EmptyMap]
    /\ metricsString = [p \in Procs |-> <<>>]
    /\ exitCode = [p \in Procs |-> -1]
    /\ dir \in [Paths -> {0, 1}]
    /\ \A f \in Paths : f # OutFile => dir[f] = 0
    /\ data = <<OldDoc>>
    /\ tmpName = [p \in Procs |-> ""]
    /\ tmpFile = [p \in Procs |-> 0]
    /\ created = [p \in Procs |-> 0]
    /\ tag = <<>> /\ sanPc = "idle" /\ sanitized = NotCalled
    /\ kind = "" /\ input = <<>> /\ runs = <<>>

\* The process after one call of gather_data returned out: a panic ends it
\* with status 2, otherwise main goes on to the next call.
AfterCall(p, k, out) ==
    /\ registry' = [registry EXCEPT ![p] = out.registry]
    /\ IF out.panic
       THEN /\ pc' = [pc EXCEPT ![p] = "exited"]
            /\ exitCode' = [exitCode EXCEPT ![p] = 2]
       ELSE /\ pc' = [pc EXCEPT ![p] = NextPc(k)]
            /\ UNCHANGED exitCode
    /\ UNCHANGED <<aws, metricsString, dir, data, tmpName, tmpFile, created,
                   sanVars, kindVars>>

call_get_asg_membership(p) ==
    /\ pc[p] = "asg"
    /\ \E o \in Orders("asg", aws["asg"].held) :
          AfterCall(p, "asg",
              get_asg_membership(registry[p],
                  MemberResult(aws["asg"].held, o, aws["asg"].err)))

call_get_ec2_instance_tags(p) ==
    /\ pc[p] = "ec2"
    /\ \E o \in Orders("ec2", aws["ec2"].held) :
          AfterCall(p, "ec2",
              get_ec2_instance_tags(registry[p],
                  TaggedResult("ec2", aws["ec2"].held, o, aws["ec2"].err,
                               aws["ec2"].failAt),
                  o.keys))

call_get_efs_tags(p) ==
    /\ pc[p] = "efs"
    /\ \E o \in Orders("efs", aws["efs"].held) :
          AfterCall(p, "efs",
              get_efs_tags(registry[p],
                  TaggedResult("efs", aws["efs"].held, o, aws["efs"].err,
                               aws["efs"].failAt),
                  o.keys))

call_get_elb_membership(p) ==
    /\ pc[p] = "elb"
    /\ \E o \in Orders("elb", aws["elb"].held) :
          AfterCall(p, "elb",
              get_elb_membership(registry[p],
                  MemberResult(aws["elb"].held, o, aws["elb"].err)))

call_get_lambda_tags(p) ==
    /\ pc[p] = "lambda"
    /\ \E o \in Orders("lambda", aws["lambda"].held) :
          AfterCall(p, "lambda",
              get_lambda_tags(registry[p],
                  TaggedResult("lambda", aws["lambda"].held, o,
                               aws["lambda"].err, aws["lambda"].failAt),
                  o.keys))

call_get_rds_tags(p) ==
    /\ pc[p] = "rds"
    /\ \E o \in Orders("rds", aws["rds"].held) :
          AfterCall(p, "rds",
              get_rds_tags(registry[p],
                  TaggedResult("rds", aws["rds"].held, o, aws["rds"].err,
                               aws["rds"].failAt),
                  o.keys))

\* The metric names in the order Gather returns the families.
FamilyOrder ==
    <<"aws_asg_instances", "aws_ec2_tags", "aws_efs_tags",
      "aws_elb_instances", "aws_lambda_tags", "aws_rds_tags">>

\* The text of the registry: one block per family that has a series, in the
\* order of the names.
Render(reg) ==
    LET Has(n) == n \in DOMAIN reg /\ reg[n].series # {}
        names == SelectSeq(FamilyOrder, Has)
    IN  [i \in 1..Len(names) |->
            [name |-> names[i],
             labels |-> reg[names[i]].labels,
             series |-> reg[names[i]].series]]

prometheus_gather(p) ==
    /\ pc[p] = "prometheus_gather"
    /\ metricsString' = [metricsString EXCEPT ![p] = Render(registry[p])]
    /\ pc' = [pc EXCEPT ![p] = "write_file"]
    /\ UNCHANGED <<aws, registry, exitCode, dir, data, tmpName, tmpFile,
                   created, sanVars, kindVars>>

\* log.Fatal(err): the process exits with status 1 at once; os.Exit runs no
\* deferred call.
logFatal(p) ==
    /\ pc' = [pc EXCEPT ![p] = "exited"]
    /\ exitCode' = [exitCode EXCEPT ![p] = 1]

\* write_file up to os.OpenFile: the name is drawn; O_CREATE|O_EXCL fails on
\* a name in use and may fail for any other reason; otherwise the name is
\* bound to a new, empty file and os.Remove(tmpName) is deferred.
write_file_OpenFile(p) ==
    /\ pc[p] = "write_file"
    /\ \E n \in 0..(NumSuffix - 1), ioError \in BOOLEAN :
          /\ tmpName' = [tmpName EXCEPT ![p] = TmpPath(n)]
          /\ IF dir[TmpPath(n)] # 0 \/ ioError
             THEN /\ logFatal(p)
                  /\ UNCHANGED <<dir, data, tmpFile, created>>
             ELSE /\ data' = Append(data, [text |-> <<>>, len |-> 0])
                  /\ dir' = [dir EXCEPT ![TmpPath(n)] = Len(data) + 1]
                  /\ tmpFile' = [tmpFile EXCEPT ![p] = Len(data) + 1]
                  /\ created' = [created EXCEPT ![p] = Len(data) + 1]
                  /\ pc' = [pc EXCEPT ![p] = "Write"]
                  /\ UNCHANGED exitCode
    /\ UNCHANGED <<aws, registry, metricsString, sanVars, kindVars>>

\* tmpFile.Write: the bytes reach the open file piece by piece; an error
\* after any number of pieces is fatal.
write_file_Write(p) ==
    /\ pc[p] = "Write"
    /\ \E ioError \in BOOLEAN :
          IF ioError
          THEN /\ logFatal(p)
               /\ UNCHANGED data
          ELSE /\ data' = [data EXCEPT ![tmpFile[p]] =
                              [text |-> metricsString[p], len |-> @.len + 1]]
               /\ pc' = [pc EXCEPT ![p] =
                            IF data[tmpFile[p]].len + 1 = DocChunks
                            THEN "Close" ELSE "Write"]
               /\ UNCHANGED exitCode
    /\ UNCHANGED <<aws, registry, metricsString, dir, tmpName, tmpFile,
                   created, sanVars, kindVars>>

\* tmpFile.Close: an error is fatal.
write_file_Close(p) ==
    /\ pc[p] = "Close"
    /\ \E ioError \in BOOLEAN :
          IF ioError
          THEN logFatal(p)
          ELSE /\ pc' = [pc EXCEPT ![p] = "Rename"]
               /\ UNCHANGED exitCode
    /\ UNCHANGED <<aws, registry, metricsString, dir, data, tmpName, tmpFile,
                   created, sanVars, kindVars>>

\* os.Rename(tmpName, outFile): in one step outFile names the file tmpName
\* named and tmpName names nothing; fails when tmpName names nothing, and may
\* fail for any other reason; an error is fatal.
write_file_Rename(p) ==
    /\ pc[p] = "Rename"
    /\ \E ioError \in BOOLEAN :
          IF dir[tmpName[p]] = 0 \/ ioError
          THEN /\ logFatal(p)
               /\ UNCHANGED dir
          ELSE /\ dir' = [f \in Paths |->
                             IF f = OutFile THEN dir[tmpName[p]]
                             ELSE IF f = tmpName[p] THEN 0
                             ELSE dir[f]]
               /\ pc' = [pc EXCEPT ![p] = "Remove"]
               /\ UNCHANGED exitCode
    /\ UNCHANGED <<aws, registry, metricsString, data, tmpName, tmpFile,
                   created, sanVars, kindVars>>

\* The deferred os.Remove(tmpName), run as write_file returns: whatever
\* tmpName names then is unlinked; main returns, status 0.
write_file_Remove(p) ==
    /\ pc[p] = "Remove"
    /\ dir' = [dir EXCEPT ![tmpName[p]] = 0]
    /\ pc' = [pc EXCEPT ![p] = "exited"]
    /\ exitCode' = [exitCode EXCEPT ![p] = 0]
    /\ UNCHANGED <<aws, registry, metricsString, data, tmpName, tmpFile,
                   created, sanVars, kindVars>>

gather_data(p) ==
    \/ call_get_asg_membership(p)
    \/ call_get_ec2_instance_tags(p)
    \/ call_get_efs_tags(p)
    \/ call_get_elb_membership(p)
    \/ call_get_lambda_tags(p)
    \/ call_get_rds_tags(p)

write_file(p) ==
    \/ write_file_OpenFile(p)
    \/ write_file_Write(p)
    \/ write_file_Close(p)
    \/ write_file_Rename(p)
    \/ write_file_Remove(p)

Next == \E p \in Procs : gather_data(p) \/ prometheus_gather(p) \/ write_file(p)

Spec == Init /\ [][Next]_vars

\* Two invocations of the program started side by side on the same output
\* path, both given the same answers by the API.
InitConcurrent ==
    /\ \E e \in BOOLEAN :
          aws = [k \in Kinds |->
                    IF k \in {"asg", "elb"}
                    THEN Answer(OneMember, k = "asg" /\ e, 0)
                    ELSE Answer(OneResource({keyName}), FALSE, 0)]
    /\ pc = [p \in Procs |-> "asg"]
    /\ registry = [p \in Procs |-> EmptyMap]
    /\ metricsString = [p \in Procs |-> <<>>]
    /\ exitCode = [p \in Procs |-> -1]
    /\ dir \in [Paths -> {0, 1}]
    /\ \A f \in Paths : f # OutFile => dir[f] = 0
    /\ data = <<OldDoc>>
    /\ tmpName = [p \in Procs |-> ""]
    /\ tmpFile = [p \in Procs |-> 0]
    /\ created = [p \in Procs |-> 0]
    /\ tag = <<>> /\ sanPc = "idle" /\ sanitized = NotCalled
    /\ kind = "" /\ input = <<>> /\ runs = <<>>

SpecConcurrent == InitConcurrent /\ [][Next]_vars

(***************************************************************************)
(* Properties                                                              *)
(***************************************************************************)

\* The identifier grammar ^[A-Za-z_][A-Za-z0-9_]*$.
IsIdentifier(s) ==
    /\ s # <<>>
    /\ Head(s) \in Letters \cup {"_"}
    /\ \A i \in 1..Len(s) : s[i] \in WordChars

\* The kind's raw keys: its fixed keys and the tag keys of the input.
RawKeys(k, inp) == Range(FixedKeys(k)) \cup Universe(inp)

\* The number of columns the kind's keys ask for: a tag key spelled like a
\* fixed key asks for a column of its own.
Columns(k, inp) == Len(FixedKeys(k)) + Cardinality(Universe(inp))

\* The label names of the kind's raw keys.
LabelNames(k, inp) == {sanatize_tag(key).val : key \in RawKeys(k, inp)}

\* Two of the kind's keys yield the same label name.
Collides(k, inp) == Cardinality(LabelNames(k, inp)) < Columns(k, inp)

\* The run's outcome holds the kind's family.
Registered(out, k) == ~out.panic /\ MetricName(k) \in DOMAIN out.registry

Family(out, k) == out.registry[MetricName(k)]

\* The raw keys that yield the label name col.
KeysOf(k, inp, col) == {key \in RawKeys(k, inp) : sanatize_tag(key).val = col}

\* The raw key of a column whose label name one key yields.
KeyOf(k, inp, col) == CHOOSE key \in KeysOf(k, inp, col) : TRUE

\* What the resource id holds for the raw key.
ValueFor(k, inp, id, key) ==
    IF key = IdentityKey(k) THEN id
    ELSE IF key \in Range(MetadataKeys(k)) THEN MetaValue(k, id, key)
    ELSE IF key \in inp.tagsOf[id] THEN TagValue(k, id, key)
    ELSE ""

\* C1: during write_file the output path names, at every moment, nothing
\* (as before the first publication), the complete previous document or the
\* complete new document; the path is rebound only by the rename of the
\* process's fully written temporary file, and the file it names is never
\* written in place (so a failed create, write or close leaves it as it was).
C1_TargetComplete ==
    dir[OutFile] # 0 =>
        /\ data[dir[OutFile]].len = DocChunks
        /\ \/ data[dir[OutFile]] = OldDoc
           \/ \E p \in Procs : /\ dir[OutFile] = created[p]
                               /\ data[dir[OutFile]].text = metricsString[p]

C1_OnlyRename ==
    /\ dir[OutFile] # 0 => data'[dir[OutFile]] = data[dir[OutFile]]
    /\ dir'[OutFile] # dir[OutFile] =>
          \E p \in Procs : /\ pc[p] = "Rename" /\ pc'[p] = "Remove"
                           /\ dir'[OutFile] = created[p]
                           /\ data[created[p]].len = DocChunks

C1_AtomicPublish == [](C1_TargetComplete) /\ [][C1_OnlyRename]_vars

C1_Witness ==
    /\ pc[1] = "exited" /\ exitCode[1] = 0
    /\ dir[OutFile] = created[1]
    /\ data[dir[OutFile]].text = metricsString[1]
    /\ metricsString[1] # <<>>

\* C2: for every tagged kind whose family is registered and every resource r
\* listed, the family holds exactly one series per resource, r's has one
\* value per column of the schema, and the value at a column is r's id, r's
\* metadata field, r's tag value for the column's raw key, or "" when r does
\* not carry that key.
C2_SchemaComplete ==
    \A n \in 1..Len(runs) :
        (kind \in TaggedKinds /\ Registered(runs[n].out, kind)) =>
            LET fam == Family(runs[n].out, kind)
                listed == {id \in Ids : input.occ[id] > 0}
            IN  /\ \A i \in 1..Len(fam.labels) :
                      Cardinality(KeysOf(kind, input, fam.labels[i])) = 1
                /\ Cardinality(fam.series) = Cardinality(listed)
                /\ \A id \in listed :
                      \E v \in fam.series :
                          /\ Len(v) = Len(fam.labels)
                          /\ \A i \in 1..Len(fam.labels) :
                                v[i] = ValueFor(kind, input, id,
                                           KeyOf(kind, input, fam.labels[i]))

C2_Witness ==
    /\ Len(runs) = 2
    /\ kind = "lambda"
    /\ Registered(runs[2].out, kind)
    /\ input.occ = [i \in Ids |-> 1]
    /\ input.tagsOf["i-1"] = {keyColon, keyName}
    /\ input.tagsOf["i-2"] = {keyName}
    /\ runs[2].order # runs[1].order
    /\ <<"d2", "i-2", "n2", "b1", "">> \in Family(runs[2].out, kind).series

\* C3: two runs of a kind's function over the same resources and tags, met
\* in different orders, produce the same schema and the same series.
C3_Deterministic ==
    Len(runs) = 2 => runs[1].out = runs[2].out

C3_Witness ==
    /\ Len(runs) = 2
    /\ kind = "ec2"
    /\ input.occ = [i \in Ids |-> 1]
    /\ Cardinality(Universe(input)) = 2
    /\ runs[2].order.res # runs[1].order.res
    /\ runs[2].order.keys # runs[1].order.keys
    /\ Registered(runs[2].out, kind)
    /\ Cardinality(Family(runs[2].out, kind).series) = 2

\* C4: what sanatize_tag returns is an identifier; an identifier is returned
\* unchanged; a string of letters, digits and underscores that starts with a
\* digit is returned with one underscore before it.
C4_Legal ==
    sanPc = "returned" =>
        /\ ~sanitized.panic => IsIdentifier(sanitized.val)
        /\ IsIdentifier(tag) => sanitized = Returned(tag)
        /\ (tag # <<>> /\ Head(tag) \in Digits /\ \A i \in 1..Len(tag) : tag[i] \in WordChars)
              => sanitized = Returned(<<"_">> \o tag)

C4_Witness ==
    /\ sanPc = "returned"
    /\ tag = <<"1", "a", "a">>
    /\ sanitized = Returned(<<"_", "1", "a", "a">>)

C6_NoStrayTemp ==
    \A p \in Procs :
        (pc[p] = "exited" /\ created[p] # 0) =>
            \A f \in Paths \ {OutFile} : dir[f] # created[p]

\* The kind's listing, or one of its tag calls, fails in this run.
Failed(k) ==
    \/ aws[k].err
    \/ /\ FetchesTags(k)
       /\ aws[k].failAt \in 1..(2 * Sum(aws[k].held.occ, Ids))

WriteFilePcs == {"write_file", "Write", "Close", "Rename"}

\* prometheus rejects the label names of the kind: two are equal, or one
\* starts with the reserved "__".
Rejected(k, inp) ==
    \/ Collides(k, inp)
    \/ \E l \in LabelNames(k, inp) : Len(l) >= 2 /\ l[1] = "_" /\ l[2] = "_"

\* A kind whose call failed has no family; the text is that of the registry;
\* status 0 means the text is published.
C7_State ==
    \A p \in Procs :
        /\ \A k \in Kinds : Failed(k) => MetricName(k) \notin DOMAIN registry[p]
        /\ pc[p] \in WriteFilePcs => metricsString[p] = Render(registry[p])
        /\ exitCode[p] = 0 =>
              /\ dir[OutFile] = created[p]
              /\ data[dir[OutFile]] = [text |-> metricsString[p], len |-> DocChunks]

\* The step of a kind whose call fails: nothing registered, the process not
\* ended, the next call of gather_data (or prometheus_gather) reached.
C7_FailedCallGoesOn ==
    \A p \in Procs : \A k \in Kinds :
        (pc[p] = k /\ Failed(k) /\ pc'[p] # pc[p]) =>
            /\ pc'[p] = NextPc(k)
            /\ registry'[p] = registry[p]
            /\ exitCode'[p] = -1

\* C7 as claimed: a failed call registers nothing and the process goes on,
\* and a step that ends the process with a non-zero status is a step of
\* write_file.
C7_OnlyPublishErrorExits ==
    [](C7_State)
    /\ [][ /\ C7_FailedCallGoesOn
           /\ \A p \in Procs :
                 (exitCode[p] = -1 /\ exitCode'[p] \notin {-1, 0}) =>
                     pc[p] \in WriteFilePcs ]_vars

\* C7 as the code has it: a failed call registers nothing and the process
\* goes on; a step that ends the process with a non-zero status is a step of
\* write_file, or the call of a tagged kind that did not fail and whose
\* label names prometheus rejects.
C7_FetchErrorsNotFatal ==
    [](C7_State)
    /\ [][ /\ C7_FailedCallGoesOn
           /\ \A p \in Procs :
                 (exitCode[p] = -1 /\ exitCode'[p] \notin {-1, 0}) =>
                     \/ pc[p] \in WriteFilePcs
                     \/ /\ pc[p] \in TaggedKinds
                        /\ ~Failed(pc[p])
                        /\ Rejected(pc[p], aws[pc[p]].held) ]_vars

C7_Witness ==
    /\ pc[1] = "exited" /\ exitCode[1] = 0
    /\ aws["ec2"].err
    /\ aws["efs"].failAt = 2
    /\ "aws_ec2_tags" \notin DOMAIN registry[1]
    /\ "aws_efs_tags" \notin DOMAIN registry[1]
    /\ "aws_lambda_tags" \in DOMAIN registry[1]
    /\ data[dir[OutFile]].text = Render(registry[1])

\* C8: the label names of a registered family are pairwise distinct and none
\* of the kind's keys is left out; when two of the kind's keys yield the same
\* label name the run ends in a panic and the family is not registered.
C8_NoCollidingSchema ==
    \A n \in 1..Len(runs) :
        kind \in TaggedKinds =>
            LET out == runs[n].out IN
            /\ Collides(kind, input) =>
                  out.panic /\ MetricName(kind) \notin DOMAIN out.registry
            /\ Registered(out, kind) =>
                  LET labels == Family(out, kind).labels IN
                  /\ Len(labels) = Columns(kind, input)
                  /\ \A i, j \in 1..Len(labels) : labels[i] = labels[j] => i = j

C8_Witness ==
    /\ Len(runs) = 2
    /\ kind = "efs"
    /\ Universe(input) = {keyColon, keyUnderscore}
    /\ runs[2].out.panic
    /\ runs[2].out.registry = EmptyMap

\* One resource (or membership) is listed twice: two identical label vectors.
ListedTwice ==
    \E x \in DOMAIN input.occ : input.occ[x] >= 2

\* C9: a run over a listing in which two resources have the same full label
\* vector ends in an error for the kind.
C9_DuplicateSurfaced ==
    \A n \in 1..Len(runs) : ListedTwice => runs[n].out.panic

\* C10: the call sanatize_tag("") ends in the panic.
C10_EmptyFails ==
    (sanPc = "returned" /\ tag = <<>>) => sanitized.panic

\* C11: sanatize_tag is idempotent: whenever the call on a tag returns a
\* value, the call on that value returns the same value.
C11_Idempotent ==
    (sanPc = "returned" /\ ~sanitized.panic) =>
        sanatize_tag(sanitized.val) = Returned(sanitized.val)

C11_Witness ==
    /\ sanPc = "returned"
    /\ tag = <<"1", ":", "a">>
    /\ sanitized = Returned(<<"_", "1", "_", "a">>)
    /\ sanatize_tag(sanitized.val) = sanitized

\* The maximal contiguous runs of characters of [A-Za-z0-9_] in s, in order;
\* cur is the run being read.
RECURSIVE RunsFrom(_, _, _)
RunsFrom(s, i, cur) ==
    IF i > Len(s)
    THEN IF cur = <<>> THEN <<>> ELSE <<cur>>
    ELSE IF s[i] \in WordChars
         THEN RunsFrom(s, i + 1, Append(cur, s[i]))
         ELSE (IF cur = <<>> THEN <<>> ELSE <<cur>>) \o RunsFrom(s, i + 1, <<>>)

MaximalRuns(s) == RunsFrom(s, 1, <<>>)

\* The runs joined with one underscore between consecutive runs.
RECURSIVE RunsJoined(_)
RunsJoined(rs) ==
    IF rs = <<>> THEN <<>>
    ELSE IF Len(rs) = 1 THEN rs[1]
    ELSE rs[1] \o <<"_">> \o RunsJoined(Tail(rs))

\* C12: for every tag that is not a legal identifier, the string of the
\* second step is the tag's maximal runs of legal characters, in order, with
\* one underscore between consecutive runs, wherever the separators stand.
C12_RunsJoinedOnce ==
    (sanPc = "returned" /\ ~regex_full(tag)) =>
        valid_string(tag) = RunsJoined(MaximalRuns(tag))

\* C13: when two runs of write_file publish to the same path side by side,
\* the deferred remove of a run never unlinks a file the other run created,
\* and a run whose exclusive create succeeded still holds its temporary file
\* under its temporary name until it renames it.
C13_TempKept ==
    \A q \in Procs :
        pc[q] \in {"Write", "Close", "Rename"} => dir[tmpName[q]] = created[q]

C13_RemoveOwn ==
    \A p, q \in Procs :
        (p # q /\ pc[p] = "Remove" /\ pc'[p] = "exited" /\ created[q] # 0)
            => dir[tmpName[p]] # created[q]

C13_NoForeignRemove == [](C13_TempKept) /\ [][C13_RemoveOwn]_vars

====
